---- MODULE Spec2Model ----
(***************************************************************************)
(* A model of lyneate: the span overlay of src/src/span.rs and the layout  *)
(* pipeline of Report::display in src/src/report.rs.                       *)
(*                                                                         *)
(* Offsets, line indices and board columns are 0-based as in the source;   *)
(* TLA+ sequences are 1-based, so element k of a Vec is seq[k + 1].        *)
(* A span is a record [start, end] (half-open, as Range<usize>).           *)
(***************************************************************************)
EXTENDS Integers, Sequences, FiniteSets, TLC

VARIABLES
    \* ---- Report fields (src/src/report.rs:16-21) ----
    code,               \* the source, a sequence of characters
    messages,           \* the annotations, in order: [span, msg, color]
    realign,            \* TRUE: spans are byte ranges (new_byte_spanned)
    theme,              \* [chars, sizing]
    \* ---- locals of Report::display ----
    pc,                 \* position inside display
    lines,              \* Vec<LineInfo>
    linear,             \* BTreeMap<usize, Vec<LinearMsg>>
    multiline,          \* Vec<MultilineMsg>
    multiline_groups,   \* Vec<MultilineGroup>
    final_lines,        \* BTreeMap<usize, FinalLine>
    underline_commands, \* Vec<UnderlineCommand>
    multiline_commands, \* Vec<MultilineCommand>
    board,              \* Vec<BoardRow>
    max_line_num_len,   \* the width of the line-number column
    \* ---- one application of MessageSpan::overlay ----
    bottom,             \* the receiver
    top,                \* the argument
    overlaid            \* None, or Some of what iterating the SpanOverlay yields

vars == <<code, messages, realign, theme, pc, lines, linear, multiline,
          multiline_groups, final_lines, underline_commands,
          multiline_commands, board, max_line_num_len, bottom, top,
          overlaid>>

reportVars == <<code, messages, realign, theme>>
displayVars == <<pc, lines, linear, multiline, multiline_groups, final_lines,
                 underline_commands, multiline_commands, board,
                 max_line_num_len>>
overlayVars == <<bottom, top, overlaid>>

-----------------------------------------------------------------------------
(* Bounds of the checked instances.                                        *)

\* largest offset of a span handed to overlay on its own
MaxOffset == 17
\* longest source of the general instance, in characters
MaxCodeLen == 4
\* most annotations of the general instance
MaxMsgs == 1
\* longest newline-only source of the grouping instance
MaxGroupCodeLen == 3
\* most annotations of the grouping instance
MaxGroupMsgs == 3
\* longest single-line source of the underline instance
MaxLineLen == 3
\* most annotations of the underline instance
MaxLineMsgs == 2
\* most annotations of the scenario instance
MaxScenarioMsgs == 3
\* most annotations of the mixed instance
MaxMixMsgs == 2

-----------------------------------------------------------------------------
(* Generic helpers.                                                        *)

Mk(s, e) == [start |-> s, end |-> e]

Max2(a, b) == IF a >= b THEN a ELSE b

RECURSIVE SumSeq(_)
SumSeq(s) == IF s = <<>> THEN 0 ELSE Head(s) + SumSeq(Tail(s))

RECURSIVE Flatten(_)
Flatten(ss) == IF ss = <<>> THEN <<>> ELSE Head(ss) \o Flatten(Tail(ss))

Repeat(x, n) == [i \in 1 .. n |-> x]

\* the keys of a BTreeMap in iteration (ascending) order
RECURSIVE SortedKeys(_)
SortedKeys(S) ==
    IF S = {} THEN <<>>
    ELSE LET m == CHOOSE x \in S : \A y \in S : x <= y
         IN  <<m>> \o SortedKeys(S \ {m})

\* all sequences over S of length at most n
RECURSIVE SeqsUpTo(_, _)
SeqsUpTo(S, n) ==
    IF n = 0 THEN {<<>>}
    ELSE LET shorter == SeqsUpTo(S, n - 1)
         IN  shorter \cup {Append(s, x) : s \in {t \in shorter : Len(t) = n - 1}, x \in S}

SpansUpTo(n) == {Mk(s, e) : s \in 0 .. n, e \in 0 .. n} \cap
                {sp \in [start : 0 .. n, end : 0 .. n] : sp.start <= sp.end}

-----------------------------------------------------------------------------
(* span.rs                                                                 *)

\* MessageSpan::len (called size() by report.rs)
size(sp) == sp.end - sp.start

\* MessageSpan::sub
sub(sp, n) == Mk(sp.start - n, sp.end - n)

\* MessageSpan::plus
plus(sp, n) == Mk(sp.start + n, sp.end + n)

\* overlay taking a top that ends exactly where the bottom ends for one that
\* leaves the right edge visible
overlayOpenCover(self, over) ==
    IF over.start = over.end \/ over.end <= self.start \/ over.start >= self.end
    THEN <<self>>
    ELSE IF over.start <= self.start
         THEN IF over.end > self.end
              THEN <<>>
              ELSE <<Mk(over.end, self.end)>>
         ELSE IF over.end >= self.end
              THEN <<Mk(self.start, over.start)>>
              ELSE <<Mk(self.start, over.start), Mk(over.end, self.end)>>

\* overlay dropping the right remainder of a bottom split in two
overlayLeftOnly(self, over) ==
    IF over.start = over.end \/ over.end <= self.start \/ over.start >= self.end
    THEN <<self>>
    ELSE IF over.start <= self.start
         THEN IF over.end >= self.end
              THEN <<>>
              ELSE <<Mk(over.end, self.end)>>
         ELSE <<Mk(self.start, over.start)>>

\* overlay keeping the covered left edge of the bottom
overlayKeepEdge(self, over) ==
    IF over.start = over.end \/ over.end <= self.start \/ over.start >= self.end
    THEN <<self>>
    ELSE IF over.start <= self.start
         THEN IF over.end >= self.end
              THEN <<>>
              ELSE <<Mk(self.start, self.end)>>
         ELSE IF over.end >= self.end
              THEN <<Mk(self.start, over.start)>>
              ELSE <<Mk(self.start, over.start), Mk(over.end, self.end)>>

\* MessageSpan::overlay, as the sequence the SpanOverlay iterator yields:
\* None is <<>>, Single(s) is <<s>>, Double(s1, s2) is <<s1, s2>>.
overlay(self, over) ==
    IF over.start = over.end \/ over.end <= self.start \/ over.start >= self.end
    THEN <<self>>
    ELSE IF over.start <= self.start
         THEN IF over.end >= self.end
              THEN <<>>
              ELSE <<Mk(over.end, self.end)>>
         ELSE IF over.end >= self.end
              THEN <<Mk(self.start, over.start)>>
              ELSE <<Mk(self.start, over.start), Mk(over.end, self.end)>>

-----------------------------------------------------------------------------
(* theme.rs                                                                *)

\* ThemeChars::box_drawing_chars; a glyph is named by its code point
box_drawing_chars ==
    [underline            |-> "U+2500",
     underline_junction   |-> "U+252C",
     underline_vertical   |-> "U+2502",
     side_vertical        |-> "U+2502",
     side_vertical_dotted |-> "U+2575",
     side_pointer         |-> "U+25B6",
     side_pointer_line    |-> "U+2500",
     side_junction        |-> "U+251C",
     bottom_curve         |-> "U+2570",
     top_curve            |-> "U+256D",
     msg_pointer          |-> "U+2500",
     msg_line             |-> "U+2500"]

\* ThemeChars::ascii
ascii ==
    [underline            |-> "-",
     underline_junction   |-> "-",
     underline_vertical   |-> "|",
     side_vertical        |-> "|",
     side_vertical_dotted |-> ":",
     side_pointer         |-> ">",
     side_pointer_line    |-> "-",
     side_junction        |-> "|",
     bottom_curve         |-> "\\",
     top_curve            |-> "/",
     msg_pointer          |-> "-",
     msg_line             |-> "-"]

\* ThemeSizing::default
DefaultSizing ==
    [pre_line_number_padding |-> 3,
     underline_spacing       |-> 1,
     underline_arm_length    |-> 2,
     side_arm_length         |-> 2,
     side_pointer_length     |-> 2]

\* Theme::default: ThemeChars::default is box_drawing_chars
DefaultTheme == [chars |-> box_drawing_chars, sizing |-> DefaultSizing]

\* the theme of examples/themed.rs
ThemedExample ==
    [chars  |-> ascii,
     sizing |-> [DefaultSizing EXCEPT !.pre_line_number_padding = 5,
                                      !.underline_arm_length = 10]]

\* every sizing parameter 0: no spacing, no arms, no pointers
CompactTheme ==
    [chars  |-> ascii,
     sizing |-> [pre_line_number_padding |-> 0,
                 underline_spacing       |-> 0,
                 underline_arm_length    |-> 0,
                 side_arm_length         |-> 0,
                 side_pointer_length     |-> 0]]

Themes == {DefaultTheme, ThemedExample, CompactTheme}

-----------------------------------------------------------------------------
(* util.rs: byte spans to character spans.  A character is one byte long   *)
(* except U+00E9, which UTF-8 encodes in two.                              *)

NL == "\n"

ByteLen(ch) == IF ch = "U+00E9" THEN 2 ELSE 1

\* the byte offset at which character k of text starts
RECURSIVE ByteOffset(_, _)
ByteOffset(text, k) ==
    IF k = 0 THEN 0 ELSE ByteOffset(text, k - 1) + ByteLen(text[k])

\* str::is_char_boundary
is_char_boundary(text, b) == \E k \in 0 .. Len(text) : ByteOffset(text, k) = b

\* text[..b].chars().count(), for b on a character boundary
CharsBefore(text, b) == CHOOSE k \in 0 .. Len(text) : ByteOffset(text, k) = b

\* slicing a str off a character boundary panics
SliceFaults(text, byte_span) ==
    ~ is_char_boundary(text, byte_span.start) \/ ~ is_char_boundary(text, byte_span.end)

byte_span_to_char_span(text, byte_span) ==
    LET start == CharsBefore(text, byte_span.start)
        sz    == CharsBefore(text, byte_span.end) - CharsBefore(text, byte_span.start)
    IN  Mk(start, start + sz)

-----------------------------------------------------------------------------
(* report.rs: the line index and the classification of the annotations.    *)

\* the loop of report.rs:83-88; i is the offset looked at, start the offset
\* at which the line being read began
RECURSIVE SplitLines(_, _, _, _)
SplitLines(text, i, start, out) ==
    IF i = Len(text)
    THEN Append(out, [line  |-> SubSeq(text, start + 1, Len(text)),
                      start |-> start,
                      end   |-> start + (Len(text) - start)])
    ELSE IF text[i + 1] = NL
         THEN SplitLines(text, i + 1, i + 1,
                         Append(out, [line  |-> SubSeq(text, start + 1, i + 1),
                                      start |-> start,
                                      end   |-> start + (i + 1 - start)]))
         ELSE SplitLines(text, i + 1, start, out)

IndexLines(text) == SplitLines(text, 0, 0, <<>>)

\* get_line taking the end of a line record for part of it
get_lineClosed(ls, c) ==
    IF \E k \in 1 .. Len(ls) : ls[k].start <= c /\ c <= ls[k].end
    THEN (CHOOSE k \in 1 .. Len(ls) :
            /\ ls[k].start <= c /\ c <= ls[k].end
            /\ \A j \in 1 .. (k - 1) : ~ (ls[j].start <= c /\ c <= ls[j].end)) - 1
    ELSE Len(ls) - 1

\* the closure get_line: the first line holding offset c, else the last line
get_line(ls, c) ==
    IF \E k \in 1 .. Len(ls) : ls[k].start <= c /\ c < ls[k].end
    THEN (CHOOSE k \in 1 .. Len(ls) :
            /\ ls[k].start <= c /\ c < ls[k].end
            /\ \A j \in 1 .. (k - 1) : ~ (ls[j].start <= c /\ c < ls[j].end)) - 1
    ELSE Len(ls) - 1

\* the span of a message in character offsets (report.rs:123-131)
CharSpan(text, ra, m) ==
    IF ra THEN byte_span_to_char_span(text, m.span) ELSE m.span

\* BTreeMap::entry(k).or_default().push(v)
PushAt(map, k, v) ==
    IF k \in DOMAIN map
    THEN [map EXCEPT ![k] = Append(@, v)]
    ELSE [j \in DOMAIN map \cup {k} |-> IF j = k THEN <<v>> ELSE map[j]]

\* one iteration of the loop of report.rs:122-152
ClassifyMsg(text, ra, ls, acc, m) ==
    IF ra /\ SliceFaults(text, m.span)
    THEN [acc EXCEPT !.fault = TRUE]
    ELSE LET span       == CharSpan(text, ra, m)
             start_line == get_line(ls, span.start)
             end_line   == get_line(ls, span.end)
         IN  IF start_line = end_line
             THEN [acc EXCEPT !.linear =
                      PushAt(@, start_line,
                             [color |-> m.color,
                              span  |-> sub(span, ls[start_line + 1].start),
                              msg   |-> m.msg])]
             ELSE [acc EXCEPT !.multiline =
                      Append(@, [color      |-> m.color,
                                 start_line |-> start_line,
                                 end_line   |-> end_line,
                                 pre_len    |-> span.start - ls[start_line + 1].start,
                                 end_len    |-> span.end - ls[end_line + 1].start,
                                 msg        |-> m.msg])]

\* the loop of report.rs:122-152, which a faulting slice cuts short
RECURSIVE ClassifyAll(_, _, _, _, _)
ClassifyAll(text, ra, ls, acc, msgs) ==
    IF msgs = <<>> \/ acc.fault THEN acc
    ELSE ClassifyAll(text, ra, ls, ClassifyMsg(text, ra, ls, acc, Head(msgs)), Tail(msgs))

EmptyMap == <<>>

Classified(text, ra, msgs) ==
    ClassifyAll(text, ra, IndexLines(text),
                [linear |-> EmptyMap, multiline |-> <<>>, fault |-> FALSE], msgs)

-----------------------------------------------------------------------------
(* report.rs: the multiline groups.                                        *)

\* AddToGroups also merging an annotation that starts on the line right after
\* a group's last line
RECURSIVE AddToGroupsAdjacent(_, _, _)
AddToGroupsAdjacent(groups, g, msg) ==
    IF g > Len(groups)
    THEN Append(groups, [first_line |-> msg.start_line,
                         last_line  |-> msg.end_line,
                         msgs       |-> <<msg>>])
    ELSE IF groups[g].first_line <= msg.end_line /\ msg.start_line <= groups[g].last_line + 1
         THEN [groups EXCEPT ![g] =
                 [first_line |-> IF msg.start_line < @.first_line
                                 THEN msg.start_line ELSE @.first_line,
                  last_line  |-> IF msg.end_line > @.last_line
                                 THEN msg.end_line ELSE @.last_line,
                  msgs       |-> Append(@.msgs, msg)]]
         ELSE AddToGroupsAdjacent(groups, g + 1, msg)

\* the inner loop of report.rs:164-175: g is the index of the group looked at
RECURSIVE AddToGroups(_, _, _)
AddToGroups(groups, g, msg) ==
    IF g > Len(groups)
    THEN Append(groups, [first_line |-> msg.start_line,
                         last_line  |-> msg.end_line,
                         msgs       |-> <<msg>>])
    ELSE IF groups[g].first_line <= msg.end_line /\ msg.start_line <= groups[g].last_line
         THEN [groups EXCEPT ![g] =
                 [first_line |-> IF msg.start_line < @.first_line
                                 THEN msg.start_line ELSE @.first_line,
                  last_line  |-> IF msg.end_line > @.last_line
                                 THEN msg.end_line ELSE @.last_line,
                  msgs       |-> Append(@.msgs, msg)]]
         ELSE AddToGroups(groups, g + 1, msg)

\* the loop of report.rs:163-181
RECURSIVE GroupAll(_, _)
GroupAll(groups, msgs) ==
    IF msgs = <<>> THEN groups
    ELSE GroupAll(AddToGroups(groups, 1, Head(msgs)), Tail(msgs))

-----------------------------------------------------------------------------
(* report.rs: the layout of the underlines and of the multiline brackets.  *)

\* Option<T>: None is <<>>, Some(x) is <<x>>
None == <<>>
Some(x) == <<x>>

\* FinalLine::new
NewFinalLine == [underline_highlights |-> <<>>,
                 multiline_highlights |-> <<>>,
                 spacing              |-> 0]

\* BTreeMap::entry(k).or_insert(FinalLine::new())
OrInsert(fl, k) ==
    IF k \in DOMAIN fl THEN fl
    ELSE [j \in DOMAIN fl \cup {k} |-> IF j = k THEN NewFinalLine ELSE fl[j]]

\* report.rs:230-235
side_space(groups, th) ==
    IF groups = <<>> THEN 0
    ELSE LET sizes == {Len(groups[g].msgs) : g \in 1 .. Len(groups)}
             v     == CHOOSE x \in sizes : \A y \in sizes : y <= x
         IN  v * (th.sizing.side_pointer_length + 1) + 1

\* the inner loop of report.rs:241-246 for one i: rem is visible_spans[i],
\* j the index of the annotation laid over it
RECURSIVE OverlayFrom(_, _, _)
OverlayFrom(rem, msgs, j) ==
    IF j > Len(msgs) THEN rem
    ELSE OverlayFrom(Flatten([k \in 1 .. Len(rem) |-> overlay(rem[k], msgs[j].span)]),
                     msgs, j + 1)

\* visible_spans after the loops of report.rs:238-247
visible_spans(msgs) ==
    [i \in 1 .. Len(msgs) |-> OverlayFrom(<<msgs[i].span>>, msgs, i + 1)]

\* the loop of report.rs:259-270: best is max_span, None or Some((span, diff))
RECURSIVE PickSpan(_, _, _)
PickSpan(spans, middle, best) ==
    IF spans = <<>>
    THEN IF best = None THEN middle
         ELSE best[1].span.start + size(best[1].span) \div 2
    ELSE LET span == Head(spans)
         IN  IF span.start <= middle /\ middle < span.end
             THEN span.start + size(span) \div 2
             ELSE LET diff == IF span.end <= middle
                              THEN middle - span.end
                              ELSE span.start - middle - 1
                  IN  IF best = None \/ (best # None /\ diff < best[1].diff)
                      THEN PickSpan(Tail(spans), middle, Some([span |-> span, diff |-> diff]))
                      ELSE PickSpan(Tail(spans), middle, best)

\* connector_pos never leaving the midpoint of the whole span
connector_posMidpoint(span, spans) ==
    span.start + size(span) \div 2

\* connector_pos keeping the midpoint of the whole span whenever a remainder
\* holds it
connector_posKeepMiddle(span, spans) ==
    LET middle == span.start + size(span) \div 2
    IN  IF \E r \in 1 .. Len(spans) : spans[r].start <= middle /\ middle < spans[r].end
        THEN middle
        ELSE PickSpan(spans, middle, None)

\* report.rs:256-274
connector_pos(span, spans) ==
    PickSpan(spans, span.start + size(span) \div 2, None)

\* Reserve giving every annotation the clearance of the first
ReserveFirstEvery(spacing, th) ==
    spacing + 2 + th.sizing.underline_spacing

\* Reserve with underline_spacing added on the else branch only
ReserveElseOnly(spacing, th) ==
    spacing + (IF spacing = 0 THEN 2 ELSE 1 + th.sizing.underline_spacing)

\* report.rs:253-254
Reserve(spacing, th) ==
    spacing + (IF spacing = 0 THEN 2 ELSE 1) + th.sizing.underline_spacing

\* the loop of report.rs:249-284 for one line: k is the index of the
\* annotation, acc the final lines and the commands so far
RECURSIVE LayoutLine(_, _, _, _, _, _)
LayoutLine(line, msgs, vis, k, th, acc) ==
    IF k > Len(msgs) THEN acc
    ELSE LET msg     == msgs[k]
             spacing == Reserve(acc.final_lines[line].spacing, th)
             fl      == [acc.final_lines EXCEPT
                           ![line].underline_highlights =
                               Append(@, [span |-> msg.span, color |-> msg.color]),
                           ![line].spacing = spacing]
             cmd     == [line          |-> line,
                         span          |-> msg.span,
                         msg           |-> msg.msg,
                         color         |-> msg.color,
                         depth         |-> spacing - 1,
                         connector_pos |-> connector_pos(msg.span, vis[k])]
         IN  LayoutLine(line, msgs, vis, k + 1, th,
                        [final_lines        |-> fl,
                         underline_commands |-> Append(acc.underline_commands, cmd)])

\* the loop of report.rs:237-285 over the lines of linear, in key order
RECURSIVE LayoutLines(_, _, _, _)
LayoutLines(lin, keys, th, acc) ==
    IF keys = <<>> THEN acc
    ELSE LayoutLines(lin, Tail(keys), th,
                     LayoutLine(Head(keys), lin[Head(keys)],
                                visible_spans(lin[Head(keys)]), 1, th, acc))

\* report.rs:198-201 and 237-285
UnderlineLayout(lin, th) ==
    LayoutLines(lin, SortedKeys(DOMAIN lin), th,
                [final_lines        |-> [l \in DOMAIN lin |-> NewFinalLine],
                 underline_commands |-> <<>>])

\* char::is_whitespace, for the characters of the model
IsWhitespace(ch) == ch \in {" ", NL}

\* Utf32Str::trim_end
RECURSIVE trim_end(_)
trim_end(text) ==
    IF text # <<>> /\ IsWhitespace(text[Len(text)])
    THEN trim_end(SubSeq(text, 1, Len(text) - 1))
    ELSE text

\* LayoutMember taking the two rows the member reserves for its depth
LayoutMemberOwnRows(ls, group, side, msg, acc) ==
    LET fl1 == OrInsert(acc.final_lines, msg.start_line)
        fl2 == [fl1 EXCEPT ![msg.start_line].multiline_highlights =
                   Append(@, [span  |-> Mk(msg.pre_len,
                                           Len(trim_end(ls[msg.start_line + 1].line))),
                              color |-> msg.color])]
        fl3 == OrInsert(fl2, msg.end_line)
        fl4 == [fl3 EXCEPT ![msg.end_line].multiline_highlights =
                   Append(@, [span |-> Mk(0, msg.end_len), color |-> msg.color])]
        spacing_end == Max2(msg.end_line, group.last_line)
        fl5 == OrInsert(fl4, spacing_end)
        fl6 == [fl5 EXCEPT ![spacing_end].spacing = @ + 2]
    IN  [final_lines        |-> fl6,
         multiline_commands |->
             Append(acc.multiline_commands,
                    [start_line  |-> msg.start_line,
                     end_line    |-> msg.end_line,
                     spacing_end |-> spacing_end,
                     msg         |-> msg.msg,
                     color       |-> msg.color,
                     depth       |-> 2,
                     side_height |-> side])]

\* the body of the loop of report.rs:287-329 for one member of a group
LayoutMember(ls, group, side, msg, acc) ==
    LET fl1 == OrInsert(acc.final_lines, msg.start_line)
        fl2 == [fl1 EXCEPT ![msg.start_line].multiline_highlights =
                   Append(@, [span  |-> Mk(msg.pre_len,
                                           Len(trim_end(ls[msg.start_line + 1].line))),
                              color |-> msg.color])]
        fl3 == OrInsert(fl2, msg.end_line)
        fl4 == [fl3 EXCEPT ![msg.end_line].multiline_highlights =
                   Append(@, [span |-> Mk(0, msg.end_len), color |-> msg.color])]
        spacing_end == Max2(msg.end_line, group.last_line)
        fl5 == OrInsert(fl4, spacing_end)
        fl6 == [fl5 EXCEPT ![spacing_end].spacing = @ + 2]
    IN  [final_lines        |-> fl6,
         multiline_commands |->
             Append(acc.multiline_commands,
                    [start_line  |-> msg.start_line,
                     end_line    |-> msg.end_line,
                     spacing_end |-> spacing_end,
                     msg         |-> msg.msg,
                     color       |-> msg.color,
                     depth       |-> fl6[spacing_end].spacing,
                     side_height |-> side])]

\* the inner loop of report.rs:287-329; side is the 0-based enumerate index
RECURSIVE LayoutGroup(_, _, _, _)
LayoutGroup(ls, group, side, acc) ==
    IF side >= Len(group.msgs) THEN acc
    ELSE LayoutGroup(ls, group, side + 1,
                     LayoutMember(ls, group, side, group.msgs[side + 1], acc))

\* the loop of report.rs:286-330
RECURSIVE LayoutGroups(_, _, _)
LayoutGroups(ls, groups, acc) ==
    IF groups = <<>> THEN acc
    ELSE LayoutGroups(ls, Tail(groups), LayoutGroup(ls, Head(groups), 0, acc))

\* report.rs:332-339: a line with no reserved rows whose successor is not
\* shown gets one spacer row
PadGaps(fl) ==
    [idx \in DOMAIN fl |->
        IF fl[idx].spacing = 0 /\ (idx + 1) \notin DOMAIN fl
        THEN [fl[idx] EXCEPT !.spacing = @ + 1]
        ELSE fl[idx]]

-----------------------------------------------------------------------------
(* report.rs: the board.                                                   *)

BlankCell == [color |-> None, ch |-> " "]

\* what BoardRow::get_cell does to the row: a row with no trailing string
\* grows to hold idx
Grown(row, idx) ==
    IF row.end_str # None \/ idx < Len(row.cells) THEN row
    ELSE [row EXCEPT !.cells = @ \o Repeat(BlankCell, idx + 1 - Len(@))]

\* BoardRow::write_colored_char
write_colored_char(row, ch, idx, color) ==
    LET r == Grown(row, idx)
    IN  IF idx < Len(r.cells)
        THEN [r EXCEPT !.cells[idx + 1] = [color |-> color, ch |-> ch]]
        ELSE r

\* BoardRow::write_char
write_char(row, ch, idx) ==
    LET r == Grown(row, idx)
    IN  IF idx < Len(r.cells)
        THEN [r EXCEPT !.cells[idx + 1].ch = ch]
        ELSE r

\* BoardRow::write_colored
RECURSIVE write_colored(_, _, _, _)
write_colored(row, text, start, color) ==
    IF text = <<>> THEN row
    ELSE write_colored(write_colored_char(row, Head(text), start, color),
                       Tail(text), start + 1, color)

\* BoardRow::recolor
RECURSIVE recolor(_, _, _)
recolor(row, span, color) ==
    IF span.start >= span.end THEN row
    ELSE LET r == Grown(row, span.start)
         IN  recolor(IF span.start < Len(r.cells)
                     THEN [r EXCEPT !.cells[span.start + 1].color = color]
                     ELSE r,
                     Mk(span.start + 1, span.end), color)

\* Vec::truncate
truncate(cells, n) == IF n < Len(cells) THEN SubSeq(cells, 1, n) ELSE cells

\* LineRows putting the spacer rows of a line above its content row
LineRowsSpacersFirst(ls, line, info, sspace) ==
    Repeat([line |-> None, cells |-> <<>>, end_str |-> None], info.spacing)
    \o <<[line    |-> Some(line),
          cells   |-> [i \in 1 .. sspace |-> BlankCell] \o
                      [i \in 1 .. Len(trim_end(ls[line + 1].line)) |->
                          [color |-> None, ch |-> trim_end(ls[line + 1].line)[i]]],
          end_str |-> None]>>

\* the rows of one line (report.rs:403-420)
LineRows(ls, line, info, sspace) ==
    <<[line    |-> Some(line),
       cells   |-> [i \in 1 .. sspace |-> BlankCell] \o
                   [i \in 1 .. Len(trim_end(ls[line + 1].line)) |->
                       [color |-> None, ch |-> trim_end(ls[line + 1].line)[i]]],
       end_str |-> None]>>
    \o Repeat([line |-> None, cells |-> <<>>, end_str |-> None], info.spacing)

\* report.rs:400-421
NewBoard(ls, fl, sspace) ==
    LET keys == SortedKeys(DOMAIN fl)
    IN  Flatten([k \in 1 .. Len(keys) |-> LineRows(ls, keys[k], fl[keys[k]], sspace)])

\* the closure shifted_line (report.rs:423-429)
shifted_line(fl, l) ==
    LET keys  == SortedKeys(DOMAIN fl)
        taken == IF \E k \in 1 .. Len(keys) : keys[k] = l
                 THEN (CHOOSE k \in 1 .. Len(keys) : keys[k] = l) - 1
                 ELSE Len(keys)
    IN  SumSeq([k \in 1 .. taken |-> fl[keys[k]].spacing + 1])

\* board[r] = f(board[r])
SetRow(b, r, newrow) == [b EXCEPT ![r + 1] = newrow]

\* the inner loop of report.rs:432-438 for one line
RECURSIVE RecolorRow(_, _, _)
RecolorRow(row, highlights, sspace) ==
    IF highlights = <<>> THEN row
    ELSE RecolorRow(recolor(row, plus(Head(highlights).span, sspace),
                            Some(Head(highlights).color)),
                    Tail(highlights), sspace)

\* the loop of report.rs:431-439
RECURSIVE RecolorLines(_, _, _, _)
RecolorLines(b, fl, keys, sspace) ==
    IF keys = <<>> THEN b
    ELSE LET r == shifted_line(fl, Head(keys))
         IN  RecolorLines(
                 SetRow(b, r, RecolorRow(b[r + 1],
                                         fl[Head(keys)].multiline_highlights \o
                                         fl[Head(keys)].underline_highlights, sspace)),
                 fl, Tail(keys), sspace)

\* the arm strings of report.rs:474-485, 506-517 and 560-571
Arm(len, line_ch, pointer_ch) ==
    IF len = 0 THEN <<>> ELSE Repeat(line_ch, len - 1) \o <<pointer_ch>>

\* horiz one column to the right
horizOffByOne(sspace, side_height, th) ==
    sspace - side_height * (th.sizing.side_pointer_length + 1) - 1
           - th.sizing.side_pointer_length

\* horiz counting the columns from the left edge of the gutter
horizFromLeft(sspace, side_height, th) ==
    side_height * (th.sizing.side_pointer_length + 1)

\* report.rs:451-454
horiz(sspace, side_height, th) ==
    sspace - side_height * (th.sizing.side_pointer_length + 1) - 2
           - th.sizing.side_pointer_length

\* a loop writing one glyph per row in column col of rows from .. to - 1
\* (report.rs:460-471 with the dotted variant on spacer rows, 500-502, 549-555)
RECURSIVE Stem(_, _, _, _, _, _, _)
Stem(b, from, to, col, solid_ch, spacer_ch, color) ==
    IF from >= to THEN b
    ELSE Stem(SetRow(b, from,
                     write_colored_char(b[from + 1],
                                        IF b[from + 1].line = None THEN spacer_ch
                                        ELSE solid_ch,
                                        col, color)),
              from + 1, to, col, solid_ch, spacer_ch, color)

\* the closing block of a command (report.rs:503-527, 557-581): the curve
\* and the arm, the cut of the row and the trailing message
Terminate(row, col, arm_length, th, color, msg) ==
    LET written == write_colored(row,
                       <<th.chars.bottom_curve>> \o
                       Arm(arm_length, th.chars.msg_line, th.chars.msg_pointer),
                       col, color)
    IN  [written EXCEPT !.cells = truncate(@, col + arm_length + 1),
                        !.end_str = Some(msg)]

\* the body of the loop of report.rs:441-528
PaintMultiline(b, fl, sspace, th, cmd) ==
    LET col         == horiz(sspace, cmd.side_height, th)
        start_line  == shifted_line(fl, cmd.start_line)
        end_line    == shifted_line(fl, cmd.end_line)
        spacing_end == shifted_line(fl, cmd.spacing_end)
        color       == Some(cmd.color)
        arm         == Arm(th.sizing.side_pointer_length,
                           th.chars.side_pointer_line, th.chars.side_pointer)
        b1 == Stem(b, start_line + 1, end_line, col, th.chars.side_vertical,
                   th.chars.side_vertical_dotted, color)
        b2 == SetRow(b1, start_line,
                     write_colored(b1[start_line + 1], <<th.chars.top_curve>> \o arm,
                                   col, color))
        b3 == SetRow(b2, end_line,
                     write_colored(b2[end_line + 1], <<th.chars.side_junction>> \o arm,
                                   col, color))
        b4 == Stem(b3, end_line + 1, spacing_end + cmd.depth, col,
                   th.chars.side_vertical, th.chars.side_vertical, color)
    IN  SetRow(b4, spacing_end + cmd.depth,
               Terminate(b4[spacing_end + cmd.depth + 1], col,
                         th.sizing.side_arm_length, th, color, cmd.msg))

\* the body of the loop of report.rs:530-582
PaintUnderline(b, fl, sspace, th, cmd) ==
    LET line  == shifted_line(fl, cmd.line) + 1
        color == Some(cmd.color)
        col   == cmd.connector_pos + sspace
        b1 == SetRow(b, line,
                     write_colored(b[line + 1],
                                   Repeat(th.chars.underline, size(cmd.span)),
                                   cmd.span.start + sspace, color))
        b2 == SetRow(b1, line, write_char(b1[line + 1], th.chars.underline_junction, col))
        b3 == Stem(b2, line + 1, line + cmd.depth, col, th.chars.underline_vertical,
                   th.chars.underline_vertical, color)
    IN  SetRow(b3, line + cmd.depth,
               Terminate(b3[line + cmd.depth + 1], col,
                         th.sizing.underline_arm_length, th, color, cmd.msg))

\* the loops of report.rs:441 and 530 over the commands
RECURSIVE PaintAll(_, _, _, _, _, _)
PaintAll(b, fl, sspace, th, cmds, multi) ==
    IF cmds = <<>> THEN b
    ELSE PaintAll(IF multi THEN PaintMultiline(b, fl, sspace, th, Head(cmds))
                  ELSE PaintUnderline(b, fl, sspace, th, Head(cmds)),
                  fl, sspace, th, Tail(cmds), multi)

\* u32::ilog10, for n >= 1
RECURSIVE ilog10(_)
ilog10(n) == IF n < 10 THEN 0 ELSE 1 + ilog10(n \div 10)

-----------------------------------------------------------------------------
(* The reports the instances are checked on.                               *)

\* the messages and colours of the annotations, by position
MsgTexts == <<"m1", "m2", "m3", "m4", "m5", "m6">>
Palette == << <<255, 0, 0>>, <<255, 64, 112>>, <<255, 159, 64>>,
              <<207, 255, 64>>, <<0, 255, 0>>, <<0, 0, 255>> >>

Annotations(spans) ==
    [i \in 1 .. Len(spans) |->
        [span |-> spans[i], msg |-> MsgTexts[i], color |-> Palette[i]]]

\* the length of the source in the unit of the spans
InputLen(text, ra) == IF ra THEN ByteOffset(text, Len(text)) ELSE Len(text)

\* every list of at most n well-formed spans (start <= end <= length) drawn
\* from pool
MessageLists(text, ra, pool, n) ==
    {Annotations(ss) :
        ss \in SeqsUpTo({sp \in pool : sp.end <= InputLen(text, ra)}, n)}

GeneralCodes == SeqsUpTo({"a", NL}, MaxCodeLen)
GroupCodes == SeqsUpTo({NL}, MaxGroupCodeLen)
LineCodes == SeqsUpTo({"a"}, MaxLineLen)

\* "let x = 1;\nlet y = 2;\n" and the same with a third line
TwoLets == <<"l", "e", "t", " ", "x", " ", "=", " ", "1", ";", NL,
             "l", "e", "t", " ", "y", " ", "=", " ", "2", ";", NL>>
ThreeLets == TwoLets \o <<"l", "e", "t", " ", "z", " ", "=", " ", "3", ";">>
\* a source whose first character is two bytes long
Accented == <<"U+00E9", " ", "=", " ", "1", ";", NL, "x">>
ScenarioSpans == {Mk(4, 5), Mk(0, 10), Mk(4, 6), Mk(1, 3), Mk(4, 16), Mk(4, 27)}

\* "a\n\na" and "aa\na"
MixCodes == {<<"a", NL, NL, "a">>, <<"a", "a", NL, "a">>}

\* the first line of TwoLets on its own, and the two ranges laid on it
OneLet == SubSeq(TwoLets, 1, 10)
NestedSpans == {Mk(0, 10), Mk(4, 6)}

DisplayIdle ==
    /\ lines = <<>>
    /\ linear = EmptyMap
    /\ multiline = <<>>
    /\ multiline_groups = <<>>
    /\ final_lines = EmptyMap
    /\ underline_commands = <<>>
    /\ multiline_commands = <<>>
    /\ board = <<>>
    /\ max_line_num_len = 0

OverlayIdle ==
    /\ bottom = Mk(0, 0)
    /\ top = Mk(0, 0)
    /\ overlaid = None

\* Report::new_byte_spanned / new_char_spanned, then with_theme
InitReport(codes, pool, n, themes, modes) ==
    /\ code \in codes
    /\ realign \in modes
    /\ theme \in themes
    /\ messages \in MessageLists(code, realign, pool, n)
    /\ pc = "start"
    /\ DisplayIdle
    /\ OverlayIdle

-----------------------------------------------------------------------------
(* Report::display, stage by stage.                                        *)

\* report.rs:64-152; a byte span off a character boundary panics in
\* byte_span_to_char_span
Classify ==
    /\ pc = "start"
    /\ LET c == Classified(code, realign, messages)
       IN  /\ lines' = IndexLines(code)
           /\ linear' = c.linear
           /\ multiline' = c.multiline
           /\ pc' = IF c.fault THEN "panicked" ELSE "classified"
    /\ UNCHANGED <<multiline_groups, final_lines, underline_commands,
                   multiline_commands, board, max_line_num_len>>
    /\ UNCHANGED <<reportVars, overlayVars>>

\* report.rs:161-181
Group ==
    /\ pc = "classified"
    /\ multiline_groups' = GroupAll(<<>>, multiline)
    /\ pc' = "grouped"
    /\ UNCHANGED <<lines, linear, multiline, final_lines, underline_commands,
                   multiline_commands, board, max_line_num_len>>
    /\ UNCHANGED <<reportVars, overlayVars>>

\* report.rs:198-201 and 237-285
LayoutUnderlines ==
    /\ pc = "grouped"
    /\ LET u == UnderlineLayout(linear, theme)
       IN  /\ final_lines' = u.final_lines
           /\ underline_commands' = u.underline_commands
    /\ pc' = "underlined"
    /\ UNCHANGED <<lines, linear, multiline, multiline_groups, multiline_commands,
                   board, max_line_num_len>>
    /\ UNCHANGED <<reportVars, overlayVars>>

\* report.rs:286-339
LayoutMultilines ==
    /\ pc = "underlined"
    /\ LET m == LayoutGroups(lines, multiline_groups,
                             [final_lines |-> final_lines, multiline_commands |-> <<>>])
       IN  /\ final_lines' = PadGaps(m.final_lines)
           /\ multiline_commands' = m.multiline_commands
    /\ pc' = "laid_out"
    /\ UNCHANGED <<lines, linear, multiline, multiline_groups, underline_commands,
                   board, max_line_num_len>>
    /\ UNCHANGED <<reportVars, overlayVars>>

\* report.rs:400-439
BuildBoard ==
    /\ pc = "laid_out"
    /\ LET sspace == side_space(multiline_groups, theme)
       IN  board' = RecolorLines(NewBoard(lines, final_lines, sspace), final_lines,
                                 SortedKeys(DOMAIN final_lines), sspace)
    /\ pc' = "built"
    /\ UNCHANGED <<lines, linear, multiline, multiline_groups, final_lines,
                   underline_commands, multiline_commands, max_line_num_len>>
    /\ UNCHANGED <<reportVars, overlayVars>>

\* report.rs:441-528
PaintMultilines ==
    /\ pc = "built"
    /\ board' = PaintAll(board, final_lines, side_space(multiline_groups, theme),
                         theme, multiline_commands, TRUE)
    /\ pc' = "brackets_painted"
    /\ UNCHANGED <<lines, linear, multiline, multiline_groups, final_lines,
                   underline_commands, multiline_commands, max_line_num_len>>
    /\ UNCHANGED <<reportVars, overlayVars>>

\* report.rs:530-582
PaintUnderlines ==
    /\ pc = "brackets_painted"
    /\ board' = PaintAll(board, final_lines, side_space(multiline_groups, theme),
                         theme, underline_commands, FALSE)
    /\ pc' = "painted"
    /\ UNCHANGED <<lines, linear, multiline, multiline_groups, final_lines,
                   underline_commands, multiline_commands, max_line_num_len>>
    /\ UNCHANGED <<reportVars, overlayVars>>

\* report.rs:584-611: last_key_value().unwrap() panics on an empty map; the
\* rows are then printed as they are
Render ==
    /\ pc = "painted"
    /\ IF DOMAIN final_lines = {}
       THEN /\ pc' = "panicked"
            /\ UNCHANGED max_line_num_len
       ELSE /\ LET last == CHOOSE k \in DOMAIN final_lines :
                              \A j \in DOMAIN final_lines : j <= k
               IN  max_line_num_len' = ilog10(last + 1) + 1
            /\ pc' = "done"
    /\ UNCHANGED <<lines, linear, multiline, multiline_groups, final_lines,
                   underline_commands, multiline_commands, board>>
    /\ UNCHANGED <<reportVars, overlayVars>>

Next ==
    \/ Classify
    \/ Group
    \/ LayoutUnderlines
    \/ LayoutMultilines
    \/ BuildBoard
    \/ PaintMultilines
    \/ PaintUnderlines
    \/ Render

\* the general instance: every short char-spanned source of several lines
Init == InitReport(GeneralCodes, SpansUpTo(MaxCodeLen), MaxMsgs, Themes, {FALSE})
Spec == Init /\ [][Next]_vars

\* the grouping instance: sources of empty lines, where every non-empty span
\* is a multiline annotation
InitGroup ==
    InitReport(GroupCodes, {sp \in SpansUpTo(MaxGroupCodeLen) : sp.start < sp.end},
               MaxGroupMsgs, {DefaultTheme}, {FALSE})
SpecGroup == InitGroup /\ [][Next]_vars

\* the underline instance: one short line with every list of spans on it,
\* and the ten-character line with the nested ranges 0..10 and 4..6
InitLine ==
    \/ InitReport(LineCodes, SpansUpTo(MaxLineLen), MaxLineMsgs, Themes, {FALSE})
    \/ InitReport({OneLet}, NestedSpans, MaxLineMsgs, Themes, {FALSE})
SpecLine == InitLine /\ [][Next]_vars

\* the scenario instance: the sources and spans of the documented examples,
\* byte-spanned, and a source with a two-byte character in both modes
InitScenario ==
    \/ InitReport({TwoLets, ThreeLets}, ScenarioSpans, MaxScenarioMsgs, Themes, {TRUE})
    \/ InitReport({Accented}, ScenarioSpans, MaxScenarioMsgs, Themes, BOOLEAN)
SpecScenario == InitScenario /\ [][Next]_vars

\* the mixed instance: two short sources of three lines with every list of
\* spans on them, linear and multiline annotations side by side
InitMix == InitReport(MixCodes, SpansUpTo(MaxCodeLen), MaxMixMsgs, Themes, {FALSE})
SpecMix == InitMix /\ [][Next]_vars

-----------------------------------------------------------------------------
(* MessageSpan::overlay on its own.                                        *)

InitOverlay ==
    /\ bottom \in SpansUpTo(MaxOffset)
    /\ top \in SpansUpTo(MaxOffset)
    /\ overlaid = None
    /\ code = <<>>
    /\ messages = <<>>
    /\ realign = FALSE
    /\ theme = DefaultTheme
    /\ pc = "idle"
    /\ DisplayIdle

Overlay ==
    /\ pc = "idle"
    /\ overlaid = None
    /\ overlaid' = Some(overlay(bottom, top))
    /\ UNCHANGED <<bottom, top, reportVars, displayVars>>

NextOverlay == Overlay

SpecOverlay == InitOverlay /\ [][NextOverlay]_vars

-----------------------------------------------------------------------------
(* Properties of MessageSpan::overlay, checked under SpecOverlay.          *)

\* the remainders the overlay yielded
Remainders == overlaid[1]

\* the offsets a span holds
Offsets(sp) == {x \in 0 .. (MaxOffset + 1) : sp.start <= x /\ x < sp.end}

Covers(t, b) == t.start <= b.start /\ t.end >= b.end
StrictlyInside(t, b) == b.start < t.start /\ t.end < b.end

\* C5 as claimed: whenever top fully covers bottom, top = bottom included,
\* bottom.overlay(top) yields no remainder at all.
C5_CoveredYieldsNothing ==
    (overlaid # None /\ Covers(top, bottom)) => Remainders = <<>>

\* C5, amended: a top that fully covers a non-empty bottom leaves no
\* remainder; an empty bottom leaves none only when it lies strictly inside
\* top, and otherwise is yielded unchanged.
C5_CoveredNonEmptyYieldsNothing ==
    (overlaid # None /\ Covers(top, bottom)) =>
        /\ size(bottom) > 0 => Remainders = <<>>
        /\ size(bottom) = 0 =>
              IF top.start < bottom.start /\ bottom.end < top.end
              THEN Remainders = <<>>
              ELSE Remainders = <<bottom>>

C5_Witness ==
    /\ overlaid = Some(<<>>)
    /\ size(bottom) > 0
    /\ top = bottom

\* C6 as claimed: whenever top is strictly contained in bottom, the overlay
\* yields [bottom.start, top.start) and then [top.end, bottom.end).
C6_InsideYieldsTwo ==
    (overlaid # None /\ StrictlyInside(top, bottom)) =>
        Remainders = <<Mk(bottom.start, top.start), Mk(top.end, bottom.end)>>

\* C6, amended: a non-empty top strictly contained in bottom leaves the two
\* remainders that bracket it, left one first; an empty top strictly inside
\* bottom leaves bottom whole.
C6_NonEmptyInsideYieldsTwo ==
    (overlaid # None /\ StrictlyInside(top, bottom)) =>
        IF size(top) > 0
        THEN /\ Remainders = <<Mk(bottom.start, top.start), Mk(top.end, bottom.end)>>
             /\ Remainders[1].end <= Remainders[2].start
             /\ size(Remainders[1]) > 0 /\ size(Remainders[2]) > 0
        ELSE Remainders = <<bottom>>

C6_Witness ==
    /\ bottom = Mk(10, 15)
    /\ top = Mk(12, 13)
    /\ overlaid = Some(<<Mk(10, 12), Mk(13, 15)>>)

\* C7: the remainders are what stays visible of bottom: well-formed, listed
\* left to right, pairwise disjoint, and covering exactly the offsets of
\* bottom that are not in top; a top that does not reach into bottom leaves
\* bottom unchanged and a top over one edge leaves the other side.
C7_RemaindersAreTheVisiblePart ==
    overlaid # None =>
        /\ Len(Remainders) <= 2
        /\ \A i \in 1 .. Len(Remainders) : Remainders[i].start <= Remainders[i].end
        /\ \A i \in 1 .. (Len(Remainders) - 1) : Remainders[i].end <= Remainders[i + 1].start
        /\ UNION {Offsets(Remainders[i]) : i \in 1 .. Len(Remainders)}
               = Offsets(bottom) \ Offsets(top)
        /\ (top.end <= bottom.start \/ top.start >= bottom.end) => Remainders = <<bottom>>
        /\ (size(top) > 0 /\ top.start <= bottom.start /\ bottom.start < top.end
                /\ top.end < bottom.end)
              => Remainders = <<Mk(top.end, bottom.end)>>
        /\ (size(top) > 0 /\ bottom.start < top.start /\ top.start < bottom.end
                /\ bottom.end <= top.end)
              => Remainders = <<Mk(bottom.start, top.start)>>
        /\ (bottom = Mk(10, 15) /\ top = Mk(13, 17)) => Remainders = <<Mk(10, 13)>>
        /\ (bottom = Mk(10, 15) /\ top = Mk(6, 12)) => Remainders = <<Mk(12, 15)>>

C7_Witness ==
    /\ bottom = Mk(10, 15)
    /\ top = Mk(6, 12)
    /\ overlaid = Some(<<Mk(12, 15)>>)

-----------------------------------------------------------------------------
(* Properties of the classification and of the grouping.                   *)

IsClassified == pc \notin {"idle", "start", "panicked"}
IsGrouped == pc \notin {"idle", "start", "classified", "panicked"}

\* closed line intervals that share a line
Overlap(a, b) == a.start_line <= b.end_line /\ b.start_line <= a.end_line

\* the index of the group holding the multiline annotation m, 0 if none does
GroupOf(m) ==
    IF \E g \in 1 .. Len(multiline_groups) :
          \E k \in 1 .. Len(multiline_groups[g].msgs) : multiline_groups[g].msgs[k] = m
    THEN CHOOSE g \in 1 .. Len(multiline_groups) :
          \E k \in 1 .. Len(multiline_groups[g].msgs) : multiline_groups[g].msgs[k] = m
    ELSE 0

\* C1: once the annotations are grouped, any two multiline annotations whose
\* closed line intervals overlap are members of the same group.
C1_OverlappingShareGroup ==
    IsGrouped =>
        \A i, j \in 1 .. Len(multiline) :
            Overlap(multiline[i], multiline[j]) =>
                /\ GroupOf(multiline[i]) # 0
                /\ GroupOf(multiline[i]) = GroupOf(multiline[j])

\* C2 as claimed: the members of a group overlap pairwise, so two disjoint
\* annotations are never in one group.
C2_GroupsOverlapPairwise ==
    IsGrouped =>
        \A g \in 1 .. Len(multiline_groups) :
            \A i, j \in 1 .. Len(multiline_groups[g].msgs) :
                Overlap(multiline_groups[g].msgs[i], multiline_groups[g].msgs[j])

\* C2, amended: every member of a group but its first overlaps a member
\* added before it, so any two members are linked by a chain of overlapping
\* members; two disjoint annotations share a group only through such a chain.
\* The group's bounds are the least start line and the greatest end line.
C2_GroupsAreOverlapChains ==
    IsGrouped =>
        \A g \in 1 .. Len(multiline_groups) :
            LET ms == multiline_groups[g].msgs
            IN  /\ Len(ms) >= 1
                /\ \A k \in 2 .. Len(ms) : \E j \in 1 .. (k - 1) : Overlap(ms[j], ms[k])
                /\ \A k \in 1 .. Len(ms) :
                      /\ multiline_groups[g].first_line <= ms[k].start_line
                      /\ ms[k].end_line <= multiline_groups[g].last_line
                /\ \E k \in 1 .. Len(ms) : multiline_groups[g].first_line = ms[k].start_line
                /\ \E k \in 1 .. Len(ms) : multiline_groups[g].last_line = ms[k].end_line

\* a group with two disjoint members, bridged by a third
C2_Witness ==
    /\ IsGrouped
    /\ \E g \in 1 .. Len(multiline_groups) :
          /\ Len(multiline_groups[g].msgs) = 3
          /\ \E i, j \in 1 .. 3 :
                ~ Overlap(multiline_groups[g].msgs[i], multiline_groups[g].msgs[j])

\* C3: display of a report with no annotations completes, and its board has
\* no rows.
C3_EmptyReportDisplays ==
    messages = <<>> =>
        /\ pc # "panicked"
        /\ board = <<>>

\* the character span of message i
SpanOf(i) == CharSpan(code, realign, messages[i])

\* the span holds a newline character
HoldsNewline(sp) == \E x \in sp.start .. (sp.end - 1) : code[x + 1] = NL

\* all characters of the span lie in the record of line l (0-based)
WithinLine(sp, l) ==
    \A x \in sp.start .. (sp.end - 1) : lines[l + 1].start <= x /\ x < lines[l + 1].end

\* the characters of the span lie in the records of at least two lines
CoversTwoLines(sp) ==
    \E x, y \in sp.start .. (sp.end - 1) :
        \E l \in 0 .. (Len(lines) - 1) : WithinLine(Mk(x, x + 1), l) /\ ~ WithinLine(Mk(y, y + 1), l)

\* message i was emitted as a linear annotation of line l with span sp
EmittedLinear(i, l, sp) ==
    /\ l \in DOMAIN linear
    /\ \E k \in 1 .. Len(linear[l]) :
          linear[l][k] = [color |-> messages[i].color, span |-> sp, msg |-> messages[i].msg]

IsLinear(i) ==
    \E l \in DOMAIN linear : \E k \in 1 .. Len(linear[l]) : linear[l][k].msg = messages[i].msg

IsMultiline(i) == \E k \in 1 .. Len(multiline) : multiline[k].msg = messages[i].msg

\* C4 as claimed: an annotation is linear exactly when all its characters
\* lie in one line record, trailing newline included, and multiline exactly
\* when it covers characters of two or more lines; a linear span is the
\* original span minus the line's char_start.
C4_LinearIffWithinOneRecord ==
    IsClassified =>
        \A i \in 1 .. Len(messages) :
            /\ IsLinear(i) <=> \E l \in 0 .. (Len(lines) - 1) : WithinLine(SpanOf(i), l)
            /\ IsMultiline(i) <=> CoversTwoLines(SpanOf(i))
            /\ IsLinear(i) =>
                  \E l \in 0 .. (Len(lines) - 1) :
                      EmittedLinear(i, l, sub(SpanOf(i), lines[l + 1].start))

\* C4, amended: an annotation is linear exactly when its span holds no
\* newline character, that is when all its characters lie in one line record
\* short of the record's trailing newline, and multiline exactly when it
\* holds one, which is so when it covers characters of two or more lines and
\* also when it ends with its line's newline; a linear span is the original
\* span minus the char_start of the line of its start offset.
C4_LinearIffNoNewline ==
    IsClassified =>
        \A i \in 1 .. Len(messages) :
            /\ IsLinear(i) <=> ~ HoldsNewline(SpanOf(i))
            /\ IsMultiline(i) <=> HoldsNewline(SpanOf(i))
            /\ CoversTwoLines(SpanOf(i)) => IsMultiline(i)
            /\ IsLinear(i) =>
                  /\ \E l \in 0 .. (Len(lines) - 1) : WithinLine(SpanOf(i), l)
                  /\ LET l == get_line(lines, SpanOf(i).start)
                     IN  EmittedLinear(i, l, sub(SpanOf(i), lines[l + 1].start))
            /\ IsMultiline(i) =>
                  \E k \in 1 .. Len(multiline) :
                      /\ multiline[k].msg = messages[i].msg
                      /\ multiline[k].start_line < multiline[k].end_line
                      /\ lines[multiline[k].start_line + 1].start + multiline[k].pre_len
                            = SpanOf(i).start
                      /\ lines[multiline[k].end_line + 1].start + multiline[k].end_len
                            = SpanOf(i).end

\* a non-empty linear annotation on a line that is not the first, rebased
C4_Witness ==
    /\ IsClassified
    /\ Len(messages) = 1
    /\ size(SpanOf(1)) > 0
    /\ \E l \in DOMAIN linear :
          /\ l > 0
          /\ linear[l][1].span = sub(SpanOf(1), lines[l + 1].start)
          /\ linear[l][1].span # SpanOf(1)

-----------------------------------------------------------------------------
(* Properties of the underline layout.                                     *)

IsUnderlined == pc \notin {"idle", "start", "classified", "grouped", "panicked"}

\* the commands of the linear annotations of line l, in encounter order
LineCmds(l) == SelectSeq(underline_commands, LAMBDA c : c.line = l)

DefaultSpacing == theme.sizing.underline_spacing = DefaultSizing.underline_spacing

\* C8 as claimed: with the default underline_spacing, the second linear
\* annotation of a line is stacked exactly one row deeper than the first.
C8_SecondOneDeeper ==
    (IsUnderlined /\ DefaultSpacing) =>
        \A l \in DOMAIN linear :
            Len(linear[l]) >= 2 => LineCmds(l)[2].depth = LineCmds(l)[1].depth + 1

\* C8, amended: with the default underline_spacing (1), the second linear
\* annotation of a line is stacked exactly 1 + underline_spacing = 2 rows
\* deeper than the first.
C8_SecondTwoDeeper ==
    (IsUnderlined /\ DefaultSpacing) =>
        \A l \in DOMAIN linear :
            Len(linear[l]) >= 2 =>
                /\ Len(LineCmds(l)) = Len(linear[l])
                /\ LineCmds(l)[2].depth = LineCmds(l)[1].depth + 1
                                          + theme.sizing.underline_spacing
                /\ LineCmds(l)[2].depth = LineCmds(l)[1].depth + 2

\* the ranges 0..10 then 4..6 laid out under the default theme
C8_Witness ==
    /\ pc = "done"
    /\ theme = DefaultTheme
    /\ Len(messages) = 2
    /\ messages[1].span = Mk(0, 10) /\ messages[2].span = Mk(4, 6)
    /\ underline_commands[1].depth = 2
    /\ underline_commands[2].depth = 4

InSpan(x, sp) == sp.start <= x /\ x < sp.end

\* C9 as claimed: the connector anchor of an annotation that has a visible
\* remainder never lies inside the span of a later annotation of its line.
C9_AnchorOutsideOccluders ==
    IsUnderlined =>
        \A l \in DOMAIN linear :
            \A k, j \in 1 .. Len(linear[l]) :
                (k < j /\ visible_spans(linear[l])[k] # <<>>) =>
                    ~ InSpan(LineCmds(l)[k].connector_pos, linear[l][j].span)

\* C9, amended: the connector anchor of an annotation that has a non-empty
\* visible remainder never lies inside the span of a later annotation of
\* its line; an empty annotation at the start of a later one is its own
\* empty remainder and is anchored inside it.
C9_AnchorOutsideOccludersNonEmpty ==
    IsUnderlined =>
        \A l \in DOMAIN linear :
            \A k, j \in 1 .. Len(linear[l]) :
                (k < j /\ \E r \in 1 .. Len(visible_spans(linear[l])[k]) :
                             size(visible_spans(linear[l])[k][r]) > 0) =>
                    ~ InSpan(LineCmds(l)[k].connector_pos, linear[l][j].span)

\* 0..10 then 4..6: the midpoint 5 is occluded and the anchor moves to 8
C9_Witness ==
    /\ IsUnderlined
    /\ Len(messages) = 2
    /\ messages[1].span = Mk(0, 10) /\ messages[2].span = Mk(4, 6)
    /\ InSpan(underline_commands[1].span.start + size(underline_commands[1].span) \div 2,
              underline_commands[2].span)
    /\ underline_commands[1].connector_pos = 8

-----------------------------------------------------------------------------
(* Properties of the painted board.                                        *)

IsBracketed == pc \in {"brackets_painted", "painted", "done"}

\* a report whose only annotation is a multiline one
SingleMultiline == Len(messages) = 1 /\ Len(multiline) = 1

\* the board has a content row for line l
HasContentRow(l) == \E r \in 1 .. Len(board) : board[r].line = Some(l)

\* the index (1-based) of the content row of line l
ContentRow(l) == CHOOSE r \in 1 .. Len(board) : board[r].line = Some(l)

\* the row holds the glyphs of text from column col on, in the colour
GlyphsAt(row, col, text, color) ==
    \A i \in 1 .. Len(text) :
        /\ col + i <= Len(row.cells)
        /\ row.cells[col + i] = [color |-> Some(color), ch |-> text[i]]

\* the pointer that follows a curve or a junction in the gutter
PointerGlyphs ==
    IF theme.sizing.side_pointer_length = 0 THEN <<>>
    ELSE [i \in 1 .. theme.sizing.side_pointer_length |->
            IF i = theme.sizing.side_pointer_length
            THEN theme.chars.side_pointer ELSE theme.chars.side_pointer_line]

\* the arm that leads to the message of a multiline annotation
SideArmGlyphs ==
    IF theme.sizing.side_arm_length = 0 THEN <<>>
    ELSE [i \in 1 .. theme.sizing.side_arm_length |->
            IF i = theme.sizing.side_arm_length
            THEN theme.chars.msg_pointer ELSE theme.chars.msg_line]

\* what C10 says of both boundary lines and of the message: the curve and
\* the junction with their pointers in gutter column 0, and the message
\* trailing a row that ends in the bottom curve and the arm
BracketEnds(m) ==
    /\ HasContentRow(m.start_line) /\ HasContentRow(m.end_line)
    /\ GlyphsAt(board[ContentRow(m.start_line)], 0,
                <<theme.chars.top_curve>> \o PointerGlyphs, m.color)
    /\ GlyphsAt(board[ContentRow(m.end_line)], 0,
                <<theme.chars.side_junction>> \o PointerGlyphs, m.color)
    /\ \E r \in 1 .. Len(board) :
          /\ board[r].end_str = Some(m.msg)
          /\ Len(board[r].cells) = 1 + theme.sizing.side_arm_length
          /\ GlyphsAt(board[r], 0, <<theme.chars.bottom_curve>> \o SideArmGlyphs, m.color)

\* C10 as claimed: a single multiline annotation from line s to line e has a
\* content row for every line from s to e, the stem glyph in its gutter
\* column on the content row of every line strictly between, and the
\* boundary glyphs and the message as BracketEnds says.
C10_BracketWithInnerContentRows ==
    (IsBracketed /\ SingleMultiline) =>
        LET m == multiline[1]
        IN  /\ \A l \in m.start_line .. m.end_line : HasContentRow(l)
            /\ \A l \in (m.start_line + 1) .. (m.end_line - 1) :
                  GlyphsAt(board[ContentRow(l)], 0, <<theme.chars.side_vertical>>, m.color)
            /\ BracketEnds(m)

\* C10, amended: a single multiline annotation from line s to line e has a
\* content row for s and for e and none for the lines strictly between; when
\* e > s + 1 one spacer row lies between the two content rows and carries
\* the dotted stem glyph in the gutter column; below e's row come a spacer
\* row with the stem and the row of the message; the boundary glyphs and the
\* message are as BracketEnds says.
C10_BracketSkipsInnerLines ==
    (IsBracketed /\ SingleMultiline) =>
        LET m  == multiline[1]
            rs == ContentRow(m.start_line)
            re == ContentRow(m.end_line)
        IN  /\ BracketEnds(m)
            /\ \A l \in (m.start_line + 1) .. (m.end_line - 1) : ~ HasContentRow(l)
            /\ rs = 1
            /\ re = IF m.end_line > m.start_line + 1 THEN 3 ELSE 2
            /\ \A r \in (rs + 1) .. (re - 1) :
                  /\ board[r].line = None
                  /\ GlyphsAt(board[r], 0, <<theme.chars.side_vertical_dotted>>, m.color)
            /\ Len(board) = re + 2
            /\ board[re + 1].line = None
            /\ GlyphsAt(board[re + 1], 0, <<theme.chars.side_vertical>>, m.color)
            /\ board[re + 2].line = None
            /\ board[re + 2].end_str = Some(m.msg)

\* an annotation from the first to the third line, painted
C10_Witness ==
    /\ pc = "done"
    /\ SingleMultiline
    /\ multiline[1].start_line = 0
    /\ multiline[1].end_line = 2
    /\ Len(board) = 5
    /\ board[2].cells[1].ch = theme.chars.side_vertical_dotted
    /\ board[5].end_str = Some("m1")

-----------------------------------------------------------------------------
(* Properties of the painted underlines.                                   *)

IsPainted == pc \in {"painted", "done"}

\* the gutter width the board was built with
Gutter == side_space(multiline_groups, theme)

\* the index (0-based) of the row whose trailing string the command sets
\* (report.rs:558)
UnderlineMsgRow(c) == shifted_line(final_lines, c.line) + 1 + c.depth

\* the bottom curve and the arm of a linear annotation
UnderlineEndGlyphs ==
    <<theme.chars.bottom_curve>> \o
    Arm(theme.sizing.underline_arm_length, theme.chars.msg_line, theme.chars.msg_pointer)

\* the row of the command's message still holds its curve and its arm
TerminationIntact(c) ==
    /\ UnderlineMsgRow(c) < Len(board)
    /\ board[UnderlineMsgRow(c) + 1].end_str = Some(c.msg)
    /\ GlyphsAt(board[UnderlineMsgRow(c) + 1], c.connector_pos + Gutter,
                UnderlineEndGlyphs, c.color)

\* C11: after all painting, the message row of every linear annotation
\* holds, from its anchor column plus the gutter width on, its own bottom
\* curve followed by its whole arm, no cell of them overwritten by the stem
\* or the glyphs of another annotation.
C11_TerminationsIntact ==
    IsPainted => \A k \in 1 .. Len(underline_commands) :
                     TerminationIntact(underline_commands[k])

-----------------------------------------------------------------------------
(* Properties of the connector anchor.                                     *)

\* the midpoint of a span (report.rs:256)
Mid(sp) == sp.start + size(sp) \div 2

\* offset x of the k-th annotation of line l is under no later annotation
LaterFree(l, k, x) ==
    /\ InSpan(x, linear[l][k].span)
    /\ \A j \in (k + 1) .. Len(linear[l]) : ~ InSpan(x, linear[l][j].span)

\* the bounds of the longest run of such offsets around x
RunLo(l, k, x) ==
    CHOOSE a \in 0 .. x : /\ \A y \in a .. x : LaterFree(l, k, y)
                          /\ a > 0 => ~ LaterFree(l, k, a - 1)
RunHi(l, k, x) ==
    CHOOSE b \in (x + 1) .. linear[l][k].span.end :
        /\ \A y \in x .. (b - 1) : LaterFree(l, k, y)
        /\ ~ LaterFree(l, k, b)

\* no later annotation of the line reaches into the k-th
Unoccluded(l, k) ==
    \A j \in (k + 1) .. Len(linear[l]) :
        \/ size(linear[l][j].span) = 0
        \/ linear[l][j].span.end <= linear[l][k].span.start
        \/ linear[l][j].span.start >= linear[l][k].span.end

\* C12 as claimed: a linear annotation whose midpoint start + size/2 lies
\* inside the span of no other annotation of its line is anchored exactly at
\* that midpoint, and so is one with no visible remainder at all.
C12_AnchorIsSpanMidpoint ==
    IsUnderlined =>
        \A l \in DOMAIN linear :
            \A k \in 1 .. Len(linear[l]) :
                /\ (\A j \in 1 .. Len(linear[l]) :
                        j # k => ~ InSpan(Mid(linear[l][k].span), linear[l][j].span))
                      => LineCmds(l)[k].connector_pos = Mid(linear[l][k].span)
                /\ visible_spans(linear[l])[k] = <<>>
                      => LineCmds(l)[k].connector_pos = Mid(linear[l][k].span)

\* C12, amended: a linear annotation whose midpoint lies under no later
\* annotation of its line is anchored at the midpoint of the visible run
\* that holds the midpoint, the part of the span around it that no later
\* annotation covers; this is the midpoint of the whole span when no later
\* annotation reaches into the span, and also when the annotation has no
\* visible remainder at all.
C12_AnchorIsRunMidpoint ==
    IsUnderlined =>
        \A l \in DOMAIN linear :
            \A k \in 1 .. Len(linear[l]) :
                LET sp  == linear[l][k].span
                    pos == LineCmds(l)[k].connector_pos
                IN  /\ LaterFree(l, k, Mid(sp))
                          => pos = Mid(Mk(RunLo(l, k, Mid(sp)), RunHi(l, k, Mid(sp))))
                    /\ Unoccluded(l, k) => pos = Mid(sp)
                    /\ visible_spans(linear[l])[k] = <<>> => pos = Mid(sp)

\* 0..3 then 0..1: the midpoint 1 stays visible, in the run 1..3 whose own
\* midpoint 2 is the anchor
C12_Witness ==
    /\ IsUnderlined
    /\ Len(messages) = 2
    /\ messages[1].span = Mk(0, 3) /\ messages[2].span = Mk(0, 1)
    /\ LaterFree(0, 1, 1)
    /\ underline_commands[1].connector_pos = 2

-----------------------------------------------------------------------------
(* Properties of the stacking depths.                                      *)

\* the rows the line has reserved once its k-th command (1-based) is made:
\* its depth is that number minus one (report.rs:281)
ReservedAfter(l, k) == LineCmds(l)[k].depth + 1

\* C13: on a line whose linear annotations are laid out in encounter order
\* with underline_spacing u, the first reserves 2 + u rows and every later
\* one 1 + u rows, the depth of each being the rows reserved so far minus
\* one; so the k-th annotation (0-based) has depth (k + 1) * (1 + u), every
\* depth is at least 1 and the depths strictly increase.
C13_DepthsFollowReservations ==
    IsUnderlined =>
        \A l \in DOMAIN linear :
            LET u == theme.sizing.underline_spacing
                n == Len(linear[l])
            IN  /\ Len(LineCmds(l)) = n
                /\ ReservedAfter(l, 1) = 2 + u
                /\ \A k \in 2 .. n : ReservedAfter(l, k) = ReservedAfter(l, k - 1) + 1 + u
                /\ pc = "underlined" => final_lines[l].spacing = ReservedAfter(l, n)
                /\ \A k \in 1 .. n : /\ LineCmds(l)[k].msg = linear[l][k].msg
                                     /\ LineCmds(l)[k].depth = k * (1 + u)
                                     /\ LineCmds(l)[k].depth >= 1
                /\ \A j, k \in 1 .. n : j < k => LineCmds(l)[j].depth < LineCmds(l)[k].depth

\* two annotations on a line under the default sizing: depths 2 and 4, five
\* rows reserved
C13_Witness ==
    /\ pc = "underlined"
    /\ theme.sizing.underline_spacing = 1
    /\ 0 \in DOMAIN linear
    /\ Len(linear[0]) = 2
    /\ LineCmds(0)[1].depth = 2
    /\ LineCmds(0)[2].depth = 4
    /\ final_lines[0].spacing = 5

-----------------------------------------------------------------------------
(* Properties of the gutter columns.                                       *)

\* the command made for the member of side index side (0-based) of group g
MemberCmd(g, side) ==
    CHOOSE k \in 1 .. Len(multiline_commands) :
        multiline_commands[k].msg = multiline_groups[g].msgs[side + 1].msg

\* the gutter column its bracket is painted in
MemberColumn(g, side) ==
    horiz(Gutter, multiline_commands[MemberCmd(g, side)].side_height, theme)

\* the top curve of the member stands in that column on the content row of
\* its first line
CurveInColumn(g, side) ==
    LET c == multiline_commands[MemberCmd(g, side)]
    IN  /\ HasContentRow(c.start_line)
        /\ GlyphsAt(board[ContentRow(c.start_line)], MemberColumn(g, side),
                    <<theme.chars.top_curve>>, c.color)

\* C14 as claimed: of two members of a multiline group, the one with the
\* smaller side index has the strictly smaller gutter column.
C14_EarlierMembersLeft ==
    IsBracketed =>
        \A g \in 1 .. Len(multiline_groups) :
            \A i, j \in 0 .. (Len(multiline_groups[g].msgs) - 1) :
                i < j => MemberColumn(g, i) < MemberColumn(g, j)

\* C14, amended: of two members of a multiline group, the one with the
\* smaller side index has the strictly larger gutter column, side_pointer_length + 1
\* columns more for each step of the side index: earlier members sit closer
\* to the text and later ones further left, the last member of the largest
\* group in column 0. In a report of a single group the top curve of every
\* member stands in its column on the content row of its first line.
C14_EarlierMembersRight ==
    IsBracketed =>
        \A g \in 1 .. Len(multiline_groups) :
            /\ \A i \in 0 .. (Len(multiline_groups[g].msgs) - 1) :
                  /\ multiline_commands[MemberCmd(g, i)].side_height = i
                  /\ MemberColumn(g, i) >= 0
                  /\ MemberColumn(g, i) + theme.sizing.side_pointer_length < Gutter
                  /\ (i + 1) * (theme.sizing.side_pointer_length + 1) + 1 = Gutter
                        => MemberColumn(g, i) = 0
                  /\ Len(multiline_groups) = 1 => CurveInColumn(g, i)
            /\ \A i, j \in 0 .. (Len(multiline_groups[g].msgs) - 1) :
                  i < j => /\ MemberColumn(g, i) > MemberColumn(g, j)
                           /\ MemberColumn(g, i) - MemberColumn(g, j)
                                  = (j - i) * (theme.sizing.side_pointer_length + 1)

\* a group of three members under the default sizing: columns 6, 3 and 0
C14_Witness ==
    /\ IsBracketed
    /\ Len(multiline_groups) = 1
    /\ Len(multiline_groups[1].msgs) = 3
    /\ MemberColumn(1, 0) = 6
    /\ MemberColumn(1, 1) = 3
    /\ MemberColumn(1, 2) = 0

-----------------------------------------------------------------------------
(* Properties of the rows of the board.                                    *)

IsBuilt == pc \in {"built", "brackets_painted", "painted", "done"}

\* the lines an annotation refers to: the line of a linear annotation, the
\* first and the last line of a multiline one
ReferencedLines ==
    DOMAIN linear
    \cup {multiline[k].start_line : k \in 1 .. Len(multiline)}
    \cup {multiline[k].end_line : k \in 1 .. Len(multiline)}

\* the rows of the referenced lines before line l: the sum of spacing + 1
RowsBefore(l) ==
    LET keys == SortedKeys(ReferencedLines)
    IN  SumSeq([k \in 1 .. Len(keys) |->
                   IF keys[k] < l THEN final_lines[keys[k]].spacing + 1 ELSE 0])

\* the characters of a row
RowText(row) == [i \in 1 .. Len(row.cells) |-> row.cells[i].ch]

\* C15: the board holds, in increasing line order, one content row for every
\* referenced line, followed by exactly spacing(line) spacer rows, rows of
\* no source line, and no row for any other line; so the row at index
\* shifted(l), the sum of spacing + 1 over the referenced lines before l, is
\* the content row of l, and the board has as many rows as the sum of
\* spacing + 1 over all referenced lines.
C15_BoardRowsPerReferencedLine ==
    IsBuilt =>
        /\ DOMAIN final_lines = ReferencedLines
        /\ Len(board) = RowsBefore(Len(lines) + 1)
        /\ \A l \in ReferencedLines :
              /\ shifted_line(final_lines, l) = RowsBefore(l)
              /\ RowsBefore(l) + 1 + final_lines[l].spacing <= Len(board)
              /\ board[RowsBefore(l) + 1].line = Some(l)
              /\ \A i \in 1 .. final_lines[l].spacing :
                    board[RowsBefore(l) + 1 + i].line = None
              /\ pc = "built" =>
                    /\ RowText(board[RowsBefore(l) + 1])
                          = Repeat(" ", Gutter) \o trim_end(lines[l + 1].line)
                    /\ \A i \in 1 .. final_lines[l].spacing :
                          /\ board[RowsBefore(l) + 1 + i].cells = <<>>
                          /\ board[RowsBefore(l) + 1 + i].end_str = None
        /\ \A r \in 1 .. Len(board) :
              board[r].line # None =>
                  /\ board[r].line[1] \in ReferencedLines
                  /\ r = RowsBefore(board[r].line[1]) + 1

\* a linear annotation on the first line and a multiline one from the first
\* to the third: the second line has no row
C15_Witness ==
    /\ pc = "built"
    /\ DOMAIN linear = {0}
    /\ Len(multiline) = 1
    /\ ReferencedLines = {0, 2}
    /\ final_lines[0].spacing > 0 /\ final_lines[2].spacing > 0
    /\ Len(board) = final_lines[0].spacing + final_lines[2].spacing + 2
    /\ board[final_lines[0].spacing + 2].line = Some(2)

-----------------------------------------------------------------------------
(* Properties of the rows of the messages.                                 *)

\* the message msg belongs to a linear annotation
HasUnderlineCmd(msg) ==
    \E k \in 1 .. Len(underline_commands) : underline_commands[k].msg = msg

UnderlineCmdOf(msg) ==
    underline_commands[CHOOSE k \in 1 .. Len(underline_commands) :
                           underline_commands[k].msg = msg]

MultilineCmdOf(msg) ==
    multiline_commands[CHOOSE k \in 1 .. Len(multiline_commands) :
                           multiline_commands[k].msg = msg]

\* the last line of the group the multiline annotation of message msg is in
LastLineOfGroup(msg) ==
    multiline_groups[CHOOSE g \in 1 .. Len(multiline_groups) :
                         \E k \in 1 .. Len(multiline_groups[g].msgs) :
                             multiline_groups[g].msgs[k].msg = msg].last_line

\* the line whose spacer rows hold the message
HomeLine(msg) ==
    IF HasUnderlineCmd(msg) THEN UnderlineCmdOf(msg).line ELSE LastLineOfGroup(msg)

\* the index (0-based) of the row whose trailing string is set to msg:
\* shifted(line) plus the rows reserved on the line when the annotation was
\* laid out (report.rs:558 and 504)
MessageRow(msg) ==
    IF HasUnderlineCmd(msg)
    THEN UnderlineMsgRow(UnderlineCmdOf(msg))
    ELSE shifted_line(final_lines, MultilineCmdOf(msg).spacing_end)
         + MultilineCmdOf(msg).depth

\* C16: every annotation, linear or multiline, has its message set as the
\* trailing string of a row of its own: the row, shifted(line) plus the
\* spacing reserved on the line so far, is a spacer row of the annotation's
\* line (of the last line of its group for a multiline annotation), lies
\* within the board, and is the row of no other annotation.
C16_MessagesOnDistinctRows ==
    IsPainted =>
        /\ Len(underline_commands) + Len(multiline_commands) = Len(messages)
        /\ \A i \in 1 .. Len(messages) :
              LET msg  == messages[i].msg
                  row  == MessageRow(msg)
                  home == HomeLine(msg)
              IN  /\ HasUnderlineCmd(msg)
                        \/ \E k \in 1 .. Len(multiline_commands) :
                               multiline_commands[k].msg = msg
                  /\ ~ HasUnderlineCmd(msg) => MultilineCmdOf(msg).spacing_end = home
                  /\ home \in ReferencedLines
                  /\ row < Len(board)
                  /\ RowsBefore(home) < row
                  /\ row <= RowsBefore(home) + final_lines[home].spacing
                  /\ board[row + 1].line = None
                  /\ board[row + 1].end_str = Some(msg)
        /\ \A i, j \in 1 .. Len(messages) :
              i # j => MessageRow(messages[i].msg) # MessageRow(messages[j].msg)
        /\ Cardinality({r \in 1 .. Len(board) : board[r].end_str # None}) = Len(messages)

\* a linear annotation on the third line and a multiline one ending there:
\* both messages below that line, the linear one first
C16_Witness ==
    /\ pc = "done"
    /\ Len(messages) = 2
    /\ Len(underline_commands) = 1 /\ Len(multiline_commands) = 1
    /\ HomeLine(messages[1].msg) = 2 /\ HomeLine(messages[2].msg) = 2
    /\ \E a, b \in 1 .. 2 :
          /\ HasUnderlineCmd(messages[a].msg) /\ ~ HasUnderlineCmd(messages[b].msg)
          /\ MessageRow(messages[a].msg) < MessageRow(messages[b].msg)
          /\ board[MessageRow(messages[b].msg) + 1].end_str = Some(messages[b].msg)

====
